---- MODULE Spec2Model ----
(***************************************************************************)
(* Model of alert-webhook-receiver.py: an HTTPServer whose handler         *)
(* (AlertWebhookHandler) decodes a POST body as UTF-8 JSON, prints a       *)
(* report of the alert group to the console and answers the request.      *)
(*                                                                         *)
(* Text values are sequences of one-character strings, so that upper(),    *)
(* split() and strip() are computed character by character.  A JSON        *)
(* object is a sequence of <<key, value>> pairs with distinct keys, in     *)
(* insertion order (the order dict.items() iterates in).                   *)
(***************************************************************************)
EXTENDS Integers, Sequences, FiniteSets, TLC

\* ------------------------------------------------------------------ bounds
\* Largest number of alert records in a payload's alerts sequence.
MaxAlerts == 3
\* Largest number of keys in a labels / annotations mapping.
MaxKeys == 3
\* Number of requests clients send to the server in Spec.
MaxRequests == 3

\* ------------------------------------------------------------------ text
LowerLetters == <<"a","b","c","d","e","f","g","h","i","j","k","l","m",
                  "n","o","p","q","r","s","t","u","v","w","x","y","z">>
UpperLetters == <<"A","B","C","D","E","F","G","H","I","J","K","L","M",
                  "N","O","P","Q","R","S","T","U","V","W","X","Y","Z">>

\* str.upper() on one character.
UpperChar(c) ==
  IF \E i \in DOMAIN LowerLetters : LowerLetters[i] = c
  THEN UpperLetters[CHOOSE i \in DOMAIN LowerLetters : LowerLetters[i] = c]
  ELSE c

\* str.upper()
Upper(s) == [i \in DOMAIN s |-> UpperChar(s[i])]

Whitespace == {" ", "\t", "\n", "\r"}

RECURSIVE LStrip(_)
LStrip(s) == IF s # <<>> /\ Head(s) \in Whitespace THEN LStrip(Tail(s)) ELSE s

RECURSIVE RStrip(_)
RStrip(s) ==
  IF s # <<>> /\ s[Len(s)] \in Whitespace
  THEN RStrip(SubSeq(s, 1, Len(s) - 1))
  ELSE s

\* str.strip()
Strip(s) == RStrip(LStrip(s))

\* value.split('\n'): the pieces between newlines, empty pieces included.
RECURSIVE SplitLines(_, _)
SplitLines(s, cur) ==
  IF s = <<>> THEN <<cur>>
  ELSE IF Head(s) = "\n" THEN <<cur>> \o SplitLines(Tail(s), <<>>)
  ELSE SplitLines(Tail(s), Append(cur, Head(s)))

\* ------------------------------------------------------------------ mappings
\* 'key in mapping'
Has(m, k) == \E i \in DOMAIN m : m[i][1] = k

\* mapping[key], for a key the mapping has
At(m, k) == m[CHOOSE i \in DOMAIN m : m[i][1] = k][2]

\* mapping.get(key, default)
Get(m, k, default) == IF Has(m, k) THEN At(m, k) ELSE default

\* ------------------------------------------------------------------ literals
unknown == <<"u","n","k","n","o","w","n">>
Unknown == <<"U","n","k","n","o","w","n">>
firing == <<"f","i","r","i","n","g">>
\* the "unset" endsAt value '0001-01-01T00:00:00Z'
UnsetEndsAt == <<"0","0","0","1","-","0","1","-","0","1","T",
                 "0","0",":","0","0",":","0","0","Z">>
\* label keys the per-alert listing leaves out
HiddenLabelKeys == {"alertname", "severity", "category", "service"}

\* ------------------------------------------------------------------ console lines
\* One print() call.  kind names the statement, num / key / text / mark carry
\* what it interpolates.
Line(kind, num, key, text, mark) ==
  [kind |-> kind, num |-> num, key |-> key, text |-> text, mark |-> mark]

Plain(kind) == Line(kind, 0, "", <<>>, "")
Text(kind, text) == Line(kind, 0, "", text, "")

\* ------------------------------------------------------------------ handle_alert
\* Lines 49-54: the group block, printed when groupLabels is non-empty.
GroupLines(group_labels) ==
  IF group_labels = <<>> THEN <<>>
  ELSE <<Text("group", Get(group_labels, "alertname", Unknown))>>
       \o (IF Has(group_labels, "cluster")
           THEN <<Text("cluster", At(group_labels, "cluster"))>> ELSE <<>>)
       \o (IF Has(group_labels, "service")
           THEN <<Text("service", At(group_labels, "service"))>> ELSE <<>>)

\* A summary that prints the severity as it is.
CommonLines_NoUpper(common_labels) ==
  IF common_labels = <<>> THEN <<>>
  ELSE <<Text("severity", Get(common_labels, "severity", unknown)),
         Text("category", Get(common_labels, "category", unknown))>>

\* Lines 57-61: the group summary, printed when commonLabels is non-empty.
CommonLines(common_labels) ==
  IF common_labels = <<>> THEN <<>>
  ELSE LET severity == Get(common_labels, "severity", unknown)
           category == Get(common_labels, "category", unknown)
       IN  <<Text("severity", Upper(severity)), Text("category", category)>>

\* A status test that ignores case.
StatusLine_AnyCase(alert) ==
  LET alert_status == Get(alert, "status", unknown)
      status_emoji == IF Upper(alert_status) = Upper(firing) THEN "siren" ELSE "check"
  IN  Line("status", 0, "", Upper(alert_status), status_emoji)

\* Lines 68-70: the alert's status, marked as firing or not.
StatusLine(alert) ==
  LET alert_status == Get(alert, "status", unknown)
      status_emoji == IF alert_status = firing THEN "siren" ELSE "check"
  IN  Line("status", 0, "", Upper(alert_status), status_emoji)

\* A listing that hides three keys and shows service.
RECURSIVE LabelItems_ShowService(_)
LabelItems_ShowService(labels) ==
  IF labels = <<>> THEN <<>>
  ELSE (IF Head(labels)[1] \notin {"alertname", "severity", "category"}
        THEN <<Line("label", 0, Head(labels)[1], Head(labels)[2], "")>> ELSE <<>>)
       \o LabelItems_ShowService(Tail(labels))

\* Lines 76-78: one line per label whose key is not hidden, in items() order.
RECURSIVE LabelItems(_)
LabelItems(labels) ==
  IF labels = <<>> THEN <<>>
  ELSE LET key == Head(labels)[1]
           value == Head(labels)[2]
       IN  (IF key \notin HiddenLabelKeys
            THEN <<Line("label", 0, key, value, "")>> ELSE <<>>)
           \o LabelItems(Tail(labels))

\* Lines 73-78: the labels block, printed when labels is non-empty.
LabelLines(labels) ==
  IF labels = <<>> THEN <<>>
  ELSE <<Plain("labels_header")>> \o LabelItems(labels)

\* Lines 89-93: the description, one line per non-blank piece, stripped.
RECURSIVE DescriptionPieces(_)
DescriptionPieces(desc_lines) ==
  IF desc_lines = <<>> THEN <<>>
  ELSE (IF Strip(Head(desc_lines)) # <<>>
        THEN <<Text("description_line", Strip(Head(desc_lines)))>> ELSE <<>>)
       \o DescriptionPieces(Tail(desc_lines))

\* Lines 85-97: the lines one annotation item prints.
AnnotationItem(key, value) ==
  IF key = "summary" THEN <<Line("annotation", 0, key, value, "")>>
  ELSE IF key = "description"
       THEN <<Line("annotation", 0, key, <<>>, "")>>
            \o DescriptionPieces(SplitLines(value, <<>>))
  ELSE IF key = "runbook_url" THEN <<Line("annotation", 0, key, value, "")>>
  ELSE IF key = "dashboard_url" THEN <<Line("annotation", 0, key, value, "")>>
  ELSE <<>>

\* A loop over the four recognized keys, in their fixed order.
AnnotationItems_FixedOrder(annotations) ==
  (IF Has(annotations, "summary")
   THEN AnnotationItem("summary", At(annotations, "summary")) ELSE <<>>)
  \o (IF Has(annotations, "description")
      THEN AnnotationItem("description", At(annotations, "description")) ELSE <<>>)
  \o (IF Has(annotations, "runbook_url")
      THEN AnnotationItem("runbook_url", At(annotations, "runbook_url")) ELSE <<>>)
  \o (IF Has(annotations, "dashboard_url")
      THEN AnnotationItem("dashboard_url", At(annotations, "dashboard_url")) ELSE <<>>)

\* Line 84: the loop over annotations.items().
RECURSIVE AnnotationItems(_)
AnnotationItems(annotations) ==
  IF annotations = <<>> THEN <<>>
  ELSE AnnotationItem(Head(annotations)[1], Head(annotations)[2])
       \o AnnotationItems(Tail(annotations))

\* Lines 81-97: the details block, printed when annotations is non-empty.
AnnotationLines(annotations) ==
  IF annotations = <<>> THEN <<>>
  ELSE <<Plain("details_header")>> \o AnnotationItems(annotations)

\* Timing lines without the test for the unset value.
TimingLines_NoSentinel(alert) ==
  (IF Has(alert, "startsAt")
   THEN <<Text("started", At(alert, "startsAt"))>> ELSE <<>>)
  \o (IF Has(alert, "endsAt")
      THEN <<Text("ended", At(alert, "endsAt"))>> ELSE <<>>)

\* Lines 100-103: the timing lines.
TimingLines(alert) ==
  (IF Has(alert, "startsAt")
   THEN <<Text("started", At(alert, "startsAt"))>> ELSE <<>>)
  \o (IF Has(alert, "endsAt") /\ At(alert, "endsAt") # UnsetEndsAt
      THEN <<Text("ended", At(alert, "endsAt"))>> ELSE <<>>)

\* Lines 65-103: the section of alert number i.
AlertSection(i, alert) ==
  <<Line("alert", i, "", <<>>, "")>>
  \o <<StatusLine(alert)>>
  \o LabelLines(Get(alert, "labels", <<>>))
  \o AnnotationLines(Get(alert, "annotations", <<>>))
  \o TimingLines(alert)

\* Line 64: for i, alert in enumerate(alerts, 1)
RECURSIVE AlertSections(_, _)
AlertSections(alerts, i) ==
  IF alerts = <<>> THEN <<>>
  ELSE AlertSection(i, Head(alerts)) \o AlertSections(Tail(alerts), i + 1)

\* Lines 105-107: the closing banner with the total.
ClosingLines(alerts) ==
  <<Plain("separator"), Line("total", Len(alerts), "", <<>>, ""), Plain("close")>>

\* Lines 37-39: the opening banner and the header with the time stamp (the
\* clock's value is left out of the line).
OpeningLines == <<Plain("open"), Plain("header"), Plain("separator")>>

\* A formatter that indexes alert_data['alerts'] instead of using get().
Raises_Strict(alert_data) ==
  alert_data.type # "object" \/ ~Has(alert_data.members, "alerts")

\* Lines 42-46: the get() calls raise AttributeError for a value that is no
\* object (a list, a number); for an object no missing key raises.
Raises(alert_data) == alert_data.type # "object"

\* Lines 33-107.  What handle_alert prints for a decoded JSON value, and whether
\* it raises (after the opening lines).
handle_alert(alert_data) ==
  IF Raises(alert_data)
  THEN [lines |-> OpeningLines, raised |-> TRUE]
  ELSE LET group_labels == Get(alert_data.members, "groupLabels", <<>>)
           common_labels == Get(alert_data.members, "commonLabels", <<>>)
           alerts == Get(alert_data.members, "alerts", <<>>)
       IN  [lines |-> OpeningLines
                      \o GroupLines(group_labels)
                      \o CommonLines(common_labels)
                      \o AlertSections(alerts, 1)
                      \o ClosingLines(alerts),
            raised |-> FALSE]

\* ------------------------------------------------------------------ payloads
\* The values a key of a labels / annotations mapping takes in the payloads drawn.
ValuesOf(key) ==
  CASE key = "severity" -> {<<"c","r","i","t","i","c","a","l">>, <<"W","a","r","n">>}
    [] key = "category" -> {<<"I","n","f","r","a">>}
    [] key = "alertname" -> {<<"H","i","g","h","C","P","U">>}
    [] key = "service" -> {<<"a","p","i">>}
    [] key = "cluster" -> {<<"p","r","o","d">>}
    [] key = "summary" -> {<<"C","P","U"," ","h","i","g","h">>}
    [] key = "description" ->
         {<<"l","i","n","e"," ","o","n","e","\n","\n"," ","l","i","n","e"," ","t","w","o"," ">>}
    [] key = "runbook_url" -> {<<"h","t","t","p",":","/","/","r">>}
    [] key = "dashboard_url" -> {<<"h","t","t","p",":","/","/","d">>}
    [] OTHER -> {<<"x","-","1">>}

Items(keys) == UNION {{<<key, v>> : v \in ValuesOf(key)} : key \in keys}

\* Every mapping of at most n items over the keys, in every insertion order.
Mappings(keys, n) ==
  UNION {{m \in [1..k -> Items(keys)] :
            \A i, j \in 1..k : i # j => m[i][1] # m[j][1]} : k \in 0..n}

\* A field that may be missing: <<>> when absent, <<value>> when present.
Optional(values) == {<<>>} \cup {<<v>> : v \in values}
Field(key, opt) == IF Len(opt) = 0 THEN <<>> ELSE <<<<key, opt[1]>>>>

LabelKeys == HiddenLabelKeys \cup {"pod", "instance"}
AnnotationKeys == {"summary", "description", "runbook_url", "dashboard_url", "owner"}
GroupKeys == {"alertname", "cluster", "service", "team"}
CommonKeys == {"severity", "category", "team"}

resolved == <<"r","e","s","o","l","v","e","d">>
Firing == <<"F","i","r","i","n","g">>
StartedAt == <<"2","0","2","4","-","0","1","-","0","1","T",
               "1","0",":","0","0",":","0","0","Z">>
EndedAt == <<"2","0","2","4","-","0","1","-","0","1","T",
             "1","1",":","3","0",":","0","0","Z">>

StatusOptions == Optional({firing, resolved, Firing})
LabelOptions == Optional(Mappings(LabelKeys, MaxKeys))
AnnotationOptions == Optional(Mappings(AnnotationKeys, MaxKeys))
StartOptions == Optional({StartedAt})
EndOptions == Optional({UnsetEndsAt, EndedAt, <<>>})

MkAlert(st, lb, an, sa, ea) ==
  Field("status", st) \o Field("labels", lb) \o Field("annotations", an)
  \o Field("startsAt", sa) \o Field("endsAt", ea)

\* The fields an alert record has around the one that is varied: none, or all.
AlertContexts ==
  { <<<<>>, <<>>, <<>>, <<>>, <<>>>>,
    << <<firing>>,
       << << <<"pod", <<"x","-","1">> >>, <<"severity", <<"W","a","r","n">> >> >> >>,
       << << <<"owner", <<"x","-","1">> >>, <<"summary", <<"C","P","U"," ","h","i","g","h">> >> >> >>,
       <<StartedAt>>, <<EndedAt>> >> }

\* Alert records that vary one field over all its options.
RichAlerts ==
  UNION {   {MkAlert(st, c[2], c[3], c[4], c[5]) : st \in StatusOptions}
       \cup {MkAlert(c[1], lb, c[3], c[4], c[5]) : lb \in LabelOptions}
       \cup {MkAlert(c[1], c[2], an, c[4], c[5]) : an \in AnnotationOptions}
       \cup {MkAlert(c[1], c[2], c[3], sa, ea) : sa \in StartOptions, ea \in EndOptions}
        : c \in AlertContexts }

\* Alert records that sequences of several alerts are made of.
BasicAlerts ==
  { MkAlert(<<>>, <<>>, <<>>, <<>>, <<>>),
    MkAlert(<<firing>>, <<>>, <<>>, <<StartedAt>>, <<UnsetEndsAt>>),
    MkAlert(<<resolved>>, << << <<"pod", <<"x","-","1">> >> >> >>, <<>>, <<>>, <<EndedAt>>) }

AlertSequences ==
  {<<a>> : a \in RichAlerts} \cup UNION {[1..n -> BasicAlerts] : n \in 0..MaxAlerts}

Object(members) == [type |-> "object", members |-> members]
MkPayload(st, gl, cl, ca, al) ==
  Object(Field("status", st) \o Field("groupLabels", gl) \o Field("commonLabels", cl)
         \o Field("commonAnnotations", ca) \o Field("alerts", al))

PayloadContexts ==
  { <<<<>>, <<>>, <<>>, <<>>, <<>>>>,
    << <<firing>>,
       << << <<"alertname", <<"H","i","g","h","C","P","U">> >> >> >>,
       << << <<"category", <<"I","n","f","r","a">> >> >> >>,
       << << <<"summary", <<"C","P","U"," ","h","i","g","h">> >> >> >>,
       << <<MkAlert(<<firing>>, <<>>, <<>>, <<>>, <<>>)>> >> >> }

\* Decoded JSON objects of the payload's shape, each varying one field over all
\* its options.
Objects ==
  UNION {   {MkPayload(c[1], gl, c[3], c[4], c[5])
               : gl \in Optional(Mappings(GroupKeys, MaxKeys))}
       \cup {MkPayload(c[1], c[2], cl, c[4], c[5])
               : cl \in Optional(Mappings(CommonKeys, MaxKeys))}
       \cup {MkPayload(st, c[2], c[3], ca, c[5])
               : st \in StatusOptions, ca \in Optional({<<>>})}
       \cup {MkPayload(c[1], c[2], c[3], c[4], al)
               : al \in Optional(AlertSequences)}
        : c \in PayloadContexts }

\* Decoded JSON values that are no object: an array, a number.
NonObjects == {[type |-> "array", members |-> <<>>], [type |-> "number", members |-> <<>>]}

NoValue == [type |-> "none", members |-> <<>>]

\* A request body: whether its bytes are UTF-8, whether the text is JSON, and the
\* value the JSON text denotes.
Body(encoding, syntax, value) ==
  [encoding |-> encoding, syntax |-> syntax, value |-> value]

InvalidBodies ==
  {Body("invalid", "malformed", NoValue), Body("utf8", "malformed", NoValue)}

\* Bodies a request to the formatter is drawn from.
FormatBodies ==
  InvalidBodies \cup {Body("utf8", "json", v) : v \in Objects \cup NonObjects}

\* Bodies the clients of the running server send.
ServerBodies ==
  InvalidBodies
  \cup {Body("utf8", "json", v) : v \in
          { [type |-> "array", members |-> <<>>],
            Object(<<>>),
            MkPayload(<<>>, <<>>, <<>>, <<>>,
                      << << MkAlert(<<firing>>, <<>>, <<>>, <<>>, <<>>),
                            MkAlert(<<resolved>>, <<>>, <<>>, <<>>, <<>>) >> >>) }}

\* ------------------------------------------------------------------ state
\* conn: one record per request sent so far, by request number.
\* backlog: the requests connected and not yet accepted, oldest first.
\* console: what has been written to the terminal, oldest first.
VARIABLES conn, backlog, console

vars == <<conn, backlog, console>>

NoResponse == [status |-> 0, content_type |-> "", body |-> ""]
Response(status, content_type, body) ==
  [status |-> status, content_type |-> content_type, body |-> body]

\* A request that has connected and waits in the listen queue.
NewConn(body) ==
  [body |-> body, pc |-> "queued", alert_data |-> NoValue, printed |-> 0,
   response |-> NoResponse]

Requests == DOMAIN conn

\* Positions of a handler that has been started and has not finished.
Handling == {"do_POST", "handle_alert", "except", "send_error", "send_success", "handle_error"}

Write(r, stream, line) == Append(console, [req |-> r, stream |-> stream, line |-> line])

\* A server that starts a thread per connection accepts at any time.
CanAccept_Threaded == TRUE

\* Line 127: HTTPServer.serve_forever handles one request at a time: it takes the
\* next connection only when the handler of the previous one has returned.
CanAccept == \A r \in Requests : conn[r].pc \notin Handling

\* ------------------------------------------------------------------ actions
\* A client sends a POST request with the given body.
Connect(body) ==
  /\ Len(conn) < MaxRequests
  /\ conn' = Append(conn, NewConn(body))
  /\ backlog' = Append(backlog, Len(conn) + 1)
  /\ UNCHANGED console

\* Line 127: the server accepts the oldest waiting connection and calls do_POST.
Accept ==
  /\ backlog # <<>>
  /\ CanAccept
  /\ conn' = [conn EXCEPT ![Head(backlog)].pc = "do_POST"]
  /\ backlog' = Tail(backlog)
  /\ UNCHANGED console

\* json.loads that accepts any text.
Decoded_Lenient(body) ==
  IF body.encoding # "utf8" THEN "handle_error" ELSE "handle_alert"

\* Lines 16-22: where do_POST goes after reading and decoding the body.
\* bytes.decode raises UnicodeDecodeError, which the except clause does not
\* name; json.loads raises JSONDecodeError; otherwise handle_alert is called.
Decoded(body) ==
  IF body.encoding # "utf8" THEN "handle_error"
  ELSE IF body.syntax # "json" THEN "except"
  ELSE "handle_alert"

\* Lines 16-21: read the body and decode it.
Decode(r) ==
  /\ conn[r].pc = "do_POST"
  /\ conn' = [conn EXCEPT ![r].pc = Decoded(conn[r].body),
                          ![r].alert_data =
                             IF Decoded(conn[r].body) = "handle_alert"
                             THEN conn[r].body.value ELSE NoValue]
  /\ UNCHANGED <<backlog, console>>

Report(r) == handle_alert(conn[r].alert_data)

\* Lines 33-107: handle_alert's next print().
PrintLine(r) ==
  /\ conn[r].pc = "handle_alert"
  /\ conn[r].printed < Len(Report(r).lines)
  /\ console' = Write(r, "stdout", Report(r).lines[conn[r].printed + 1])
  /\ conn' = [conn EXCEPT ![r].printed = @ + 1]
  /\ UNCHANGED backlog

\* A do_POST that swallows the formatter's error.
AfterReport_Swallow(report) == "send_success"

\* Line 21: handle_alert returns, or raises an error do_POST does not catch.
AfterReport(report) == IF report.raised THEN "handle_error" ELSE "send_success"

Return(r) ==
  /\ conn[r].pc = "handle_alert"
  /\ conn[r].printed = Len(Report(r).lines)
  /\ conn' = [conn EXCEPT ![r].pc = AfterReport(Report(r))]
  /\ UNCHANGED <<backlog, console>>

\* Line 23: the except clause prints the parse error.
PrintError(r) ==
  /\ conn[r].pc = "except"
  /\ console' = Write(r, "stdout", Plain("error"))
  /\ conn' = [conn EXCEPT ![r].pc = "send_error"]
  /\ UNCHANGED backlog

\* Lines 24-26: send_response(400), end_headers(), return.
ErrorResponse == Response(400, "", "")

SendError(r) ==
  /\ conn[r].pc = "send_error"
  /\ conn' = [conn EXCEPT ![r].response = ErrorResponse, ![r].pc = "done"]
  /\ UNCHANGED <<backlog, console>>

\* Lines 28-31: send_response(200), the Content-type header, the body.
SuccessResponse == Response(200, "application/json", "{\"status\": \"success\"}")

SendSuccess(r) ==
  /\ conn[r].pc = "send_success"
  /\ conn' = [conn EXCEPT ![r].response = SuccessResponse, ![r].pc = "done"]
  /\ UNCHANGED <<backlog, console>>

\* An error leaves do_POST: the server's handle_error writes the traceback to
\* stderr and closes the connection; nothing is sent to the client.
HandleError(r) ==
  /\ conn[r].pc = "handle_error"
  /\ console' = Write(r, "stderr", Plain("traceback"))
  /\ conn' = [conn EXCEPT ![r].pc = "done"]
  /\ UNCHANGED backlog

\* ------------------------------------------------------------------ specifications
\* The running server: clients send up to MaxRequests requests at any time.
Init ==
  /\ conn = <<>>
  /\ backlog = <<>>
  /\ console = <<>>

Next ==
  \/ \E body \in ServerBodies : Connect(body)
  \/ Accept
  \/ \E r \in Requests : Decode(r)
  \/ \E r \in Requests : PrintLine(r)
  \/ \E r \in Requests : Return(r)
  \/ \E r \in Requests : PrintError(r)
  \/ \E r \in Requests : SendError(r)
  \/ \E r \in Requests : SendSuccess(r)
  \/ \E r \in Requests : HandleError(r)

Spec == Init /\ [][Next]_vars

\* The formatter: one request, its body drawn from FormatBodies, is served.
InitFormat ==
  /\ \E body \in FormatBodies : conn = <<NewConn(body)>>
  /\ backlog = <<1>>
  /\ console = <<>>

NextFormat ==
  \/ Accept
  \/ \E r \in Requests : Decode(r)
  \/ \E r \in Requests : PrintLine(r)
  \/ \E r \in Requests : Return(r)
  \/ \E r \in Requests : PrintError(r)
  \/ \E r \in Requests : SendError(r)
  \/ \E r \in Requests : SendSuccess(r)
  \/ \E r \in Requests : HandleError(r)

SpecFormat == InitFormat /\ [][NextFormat]_vars

\* ------------------------------------------------------------------ reading the console
LinesOf(entries) == [i \in DOMAIN entries |-> entries[i].line]

\* What request r's handle_alert has printed so far.
ReportLines(r) ==
  LinesOf(SelectSeq(console, LAMBDA e : e.req = r /\ e.stream = "stdout"
                                        /\ e.line.kind # "error"))

\* The parse-error lines printed for request r.
ErrorLines(r) ==
  LinesOf(SelectSeq(console, LAMBDA e : e.req = r /\ e.line.kind = "error"))

Finished(r) == conn[r].pc = "done"
IsMalformedJson(r) == conn[r].body.encoding = "utf8" /\ conn[r].body.syntax # "json"
IsInvalidUtf8(r) == conn[r].body.encoding # "utf8"
IsJson(r) == conn[r].body.encoding = "utf8" /\ conn[r].body.syntax = "json"
IsObject(r) == IsJson(r) /\ conn[r].body.value.type = "object"

\* The report of r is complete: it runs from the opening banner through the
\* total line to the closing banner.
CompleteReport(r) ==
  LET lines == ReportLines(r)
  IN  /\ Len(lines) >= 6
      /\ lines[1].kind = "open"
      /\ lines[Len(lines) - 1].kind = "total"
      /\ lines[Len(lines)].kind = "close"

\* ------------------------------------------------------------------ claims
\* C1: a request whose body is malformed JSON never has a line of a report
\* printed for it, and once handled it has exactly one error line on the
\* console and the response 400 with no header and an empty body.
C1_MalformedJsonGets400 ==
  \A r \in Requests :
    IsMalformedJson(r) =>
      /\ ReportLines(r) = <<>>
      /\ conn[r].response.status \in {0, 400}
      /\ Finished(r) =>
           /\ Len(ErrorLines(r)) = 1
           /\ conn[r].response = Response(400, "", "")

C1_Witness ==
  \E r \in Requests : IsMalformedJson(r) /\ Finished(r)

\* C2 as stated: every request whose body decodes as a JSON value is answered
\* with the 200 response, after a complete report.
C2_EveryJsonValueGets200 ==
  \A r \in Requests :
    (IsJson(r) /\ Finished(r)) =>
      /\ CompleteReport(r)
      /\ conn[r].response = Response(200, "application/json", "{\"status\": \"success\"}")

\* C2 amended: the decoded value is what the formatter gets; a 200 response is
\* sent only for a decoded JSON value, only after its complete report, and it
\* is the documented one; a JSON object is answered with it; a JSON value that
\* is no object gets the opening lines only and no response.
C2_SuccessOnlyAfterReport ==
  \A r \in Requests :
    /\ conn[r].pc \in {"handle_alert", "send_success"} =>
         IsJson(r) /\ conn[r].alert_data = conn[r].body.value
    /\ conn[r].response.status = 200 =>
         /\ IsJson(r)
         /\ CompleteReport(r)
         /\ conn[r].response =
              Response(200, "application/json", "{\"status\": \"success\"}")
    /\ (Finished(r) /\ IsObject(r)) =>
         conn[r].response.status = 200
    /\ (Finished(r) /\ IsJson(r) /\ ~IsObject(r)) =>
         /\ conn[r].response = NoResponse
         /\ Len(ReportLines(r)) = 3
         /\ ~CompleteReport(r)

C2_Witness ==
  /\ \E r \in Requests : Finished(r) /\ IsObject(r) /\ conn[r].response.status = 200
  /\ \E r \in Requests : Finished(r) /\ IsJson(r) /\ ~IsObject(r)

\* C4: every request whose body is not valid UTF-8 JSON, a body that is not
\* UTF-8 at all included, has its decode error logged, is answered with 400 and
\* has no report; requests sent after it are still served.
C4_InvalidBodyGets400 ==
  \A r \in Requests :
    (Finished(r) /\ (IsInvalidUtf8(r) \/ IsMalformedJson(r))) =>
      /\ Len(ErrorLines(r)) = 1
      /\ conn[r].response.status = 400
      /\ ReportLines(r) = <<>>

\* C10: the console lines of a request form one uninterrupted block: between
\* two lines of a request there is no line of another request.
C10_ReportsNotInterleaved ==
  \A i, j, k \in DOMAIN console :
    (i < j /\ j < k /\ console[i].req = console[k].req) =>
      console[j].req = console[i].req

\* The console holds the complete report of one request and the first lines of
\* the report of another.
C10_Witness ==
  \E r1, r2 \in Requests :
    /\ r1 # r2
    /\ CompleteReport(r1)
    /\ conn[r2].pc = "handle_alert"
    /\ conn[r2].printed > 0

\* ------------------------------------------------------------------ reading a report
\* The request was a JSON object and its handling is over.
Reported(r) == IsObject(r) /\ Finished(r)

Members(r) == conn[r].body.value.members
AlertsOf(r) == Get(Members(r), "alerts", <<>>)

OfKind(lines, kind) == SelectSeq(lines, LAMBDA l : l.kind = kind)
Keys(m) == [i \in DOMAIN m |-> m[i][1]]
Values(m) == [i \in DOMAIN m |-> m[i][2]]
LineKeys(lines) == [i \in DOMAIN lines |-> lines[i].key]
LineTexts(lines) == [i \in DOMAIN lines |-> lines[i].text]
LineNums(lines) == [i \in DOMAIN lines |-> lines[i].num]

\* The lines of a complete report between the header line of alert number i
\* and the next alert's header line or the closing separator.
Section(lines, i) ==
  LET start == CHOOSE p \in DOMAIN lines : lines[p].kind = "alert" /\ lines[p].num = i
      ends == {q \in DOMAIN lines : q > start /\ lines[q].kind \in {"alert", "separator"}}
      end == CHOOSE q \in ends : \A q2 \in ends : q <= q2
  IN  SubSeq(lines, start + 1, end - 1)

RecognizedKeys == <<"summary", "description", "runbook_url", "dashboard_url">>
Rank(key) == CHOOSE i \in DOMAIN RecognizedKeys : RecognizedKeys[i] = key
IsRecognized(key) == \E i \in DOMAIN RecognizedKeys : RecognizedKeys[i] = key

\* The keys of the annotation lines printed for alert number i of request r.
AnnotationKeysPrinted(r, i) ==
  LineKeys(OfKind(Section(ReportLines(r), i), "annotation"))

\* C3 as stated: the annotation lines of an alert are those of its recognized
\* keys, in the fixed order summary, description, runbook_url, dashboard_url.
C3_AnnotationsInFixedOrder ==
  \A r \in Requests :
    Reported(r) =>
      \A i \in DOMAIN AlertsOf(r) :
        LET printed == AnnotationKeysPrinted(r, i)
            annotations == Get(AlertsOf(r)[i], "annotations", <<>>)
        IN  /\ \A p \in DOMAIN printed : IsRecognized(printed[p])
            /\ \A p, q \in DOMAIN printed :
                 p < q => Rank(printed[p]) < Rank(printed[q])
            /\ \A k \in DOMAIN RecognizedKeys :
                 Has(annotations, RecognizedKeys[k])
                   => \E p \in DOMAIN printed : printed[p] = RecognizedKeys[k]

\* C3 amended: the annotation lines of an alert are those of the recognized
\* keys of its annotations mapping, in the order the mapping has them; so each
\* is printed once and no other key is printed.
C3_AnnotationsInInputOrder ==
  \A r \in Requests :
    Reported(r) =>
      \A i \in DOMAIN AlertsOf(r) :
        LET printed == AnnotationKeysPrinted(r, i)
            annotations == Get(AlertsOf(r)[i], "annotations", <<>>)
        IN  /\ printed = SelectSeq(Keys(annotations), IsRecognized)
            /\ \A p \in DOMAIN printed : IsRecognized(printed[p])
            /\ \A p, q \in DOMAIN printed : p # q => printed[p] # printed[q]

\* A report of an alert whose annotations name two recognized keys against the
\* fixed order.
C3_Witness ==
  \E r \in Requests :
    /\ Reported(r)
    /\ \E i \in DOMAIN AlertsOf(r) :
         LET keys == Keys(Get(AlertsOf(r)[i], "annotations", <<>>))
         IN  \E p, q \in DOMAIN keys :
               /\ p < q
               /\ IsRecognized(keys[p]) /\ IsRecognized(keys[q])
               /\ Rank(keys[p]) > Rank(keys[q])

UNKNOWN == <<"U","N","K","N","O","W","N">>

\* C5: a JSON object with any of the expected fields missing never makes the
\* formatter raise; it gets a complete report and the 200 response, and each
\* missing field shows as its default or as a line left out.
C5_MissingFieldsTolerated ==
  \A r \in Requests :
    IsObject(r) =>
      /\ conn[r].pc # "handle_error"
      /\ Finished(r) =>
           LET lines == ReportLines(r)
               group_labels == Get(Members(r), "groupLabels", <<>>)
           IN  /\ conn[r].response.status = 200
               /\ CompleteReport(r)
               /\ ~Has(Members(r), "alerts") =>
                    /\ OfKind(lines, "alert") = <<>>
                    /\ LineNums(OfKind(lines, "total")) = <<0>>
               /\ ~Has(Members(r), "groupLabels") =>
                    /\ OfKind(lines, "group") = <<>>
                    /\ OfKind(lines, "cluster") = <<>>
                    /\ OfKind(lines, "service") = <<>>
               /\ (Len(group_labels) > 0 /\ ~Has(group_labels, "alertname")) =>
                    LineTexts(OfKind(lines, "group")) = << <<"U","n","k","n","o","w","n">> >>
               /\ ~Has(group_labels, "cluster") => OfKind(lines, "cluster") = <<>>
               /\ ~Has(group_labels, "service") => OfKind(lines, "service") = <<>>
               /\ ~Has(Members(r), "commonLabels") =>
                    /\ OfKind(lines, "severity") = <<>>
                    /\ OfKind(lines, "category") = <<>>
               /\ \A i \in DOMAIN AlertsOf(r) :
                    LET alert == AlertsOf(r)[i]
                        section == Section(lines, i)
                    IN  /\ ~Has(alert, "status") =>
                             /\ LineTexts(OfKind(section, "status")) = <<UNKNOWN>>
                             /\ OfKind(section, "status")[1].mark = "check"
                        /\ ~Has(alert, "labels") =>
                             /\ OfKind(section, "labels_header") = <<>>
                             /\ OfKind(section, "label") = <<>>
                        /\ ~Has(alert, "annotations") =>
                             /\ OfKind(section, "details_header") = <<>>
                             /\ OfKind(section, "annotation") = <<>>
                        /\ ~Has(alert, "startsAt") => OfKind(section, "started") = <<>>
                        /\ ~Has(alert, "endsAt") => OfKind(section, "ended") = <<>>

\* The answered report of an object that has no groupLabels and an alert record
\* with no field at all.
C5_Witness ==
  \E r \in Requests :
    /\ Reported(r)
    /\ conn[r].response.status = 200
    /\ ~Has(Members(r), "groupLabels")
    /\ \E i \in DOMAIN AlertsOf(r) : Len(AlertsOf(r)[i]) = 0

\* C6: the report has one section per alert record, numbered 1..len(alerts) in
\* the order of the sequence, and one total line carrying len(alerts) (0 and no
\* section when alerts is missing); a section is marked firing exactly when
\* the record's status is the string "firing".
C6_SectionsAndTotal ==
  \A r \in Requests :
    Reported(r) =>
      LET lines == ReportLines(r)
          alerts == AlertsOf(r)
      IN  /\ LineNums(OfKind(lines, "alert")) = [i \in 1..Len(alerts) |-> i]
          /\ LineNums(OfKind(lines, "total")) = <<Len(alerts)>>
          /\ ~Has(Members(r), "alerts") => Len(alerts) = 0
          /\ \A i \in DOMAIN alerts :
               LET status == OfKind(Section(lines, i), "status")
               IN  /\ Len(status) = 1
                   /\ status[1].mark = "siren" <=>
                        (Has(alerts[i], "status") /\ At(alerts[i], "status") = firing)
                   /\ status[1].mark \in {"siren", "check"}
                   /\ status[1].text = Upper(Get(alerts[i], "status", unknown))

\* The report of a firing alert followed by a resolved one.
C6_Witness ==
  \E r \in Requests :
    /\ Reported(r)
    /\ Len(AlertsOf(r)) = 2
    /\ Get(AlertsOf(r)[1], "status", unknown) = firing
    /\ Get(AlertsOf(r)[2], "status", unknown) = resolved

\* C7: an alert's section has no Ended line when endsAt is missing or is
\* 0001-01-01T00:00:00Z, and exactly one, with the value as it is, for any other
\* non-empty endsAt.
C7_EndedLine ==
  \A r \in Requests :
    Reported(r) =>
      \A i \in DOMAIN AlertsOf(r) :
        LET alert == AlertsOf(r)[i]
            ended == OfKind(Section(ReportLines(r), i), "ended")
        IN  /\ ~Has(alert, "endsAt") => ended = <<>>
            /\ (Has(alert, "endsAt") /\ At(alert, "endsAt") = UnsetEndsAt) => ended = <<>>
            /\ (Has(alert, "endsAt") /\ At(alert, "endsAt") # UnsetEndsAt
                  /\ Len(At(alert, "endsAt")) > 0) =>
                 LineTexts(ended) = <<At(alert, "endsAt")>>

\* The report of an alert that started and whose endsAt is the unset value.
C7_Witness ==
  \E r \in Requests :
    /\ Reported(r)
    /\ \E i \in DOMAIN AlertsOf(r) :
         /\ Has(AlertsOf(r)[i], "endsAt")
         /\ At(AlertsOf(r)[i], "endsAt") = UnsetEndsAt
         /\ Len(OfKind(Section(ReportLines(r), i), "started")) = 1

IsShownLabel(item) == item[1] \notin {"alertname", "severity", "category", "service"}

\* C8: the label lines of an alert's section are those of the keys of its
\* labels mapping other than alertname, severity, category and service, one
\* each, in the mapping's order, whatever the group's mappings hold.
C8_LabelListing ==
  \A r \in Requests :
    Reported(r) =>
      \A i \in DOMAIN AlertsOf(r) :
        LET labels == Get(AlertsOf(r)[i], "labels", <<>>)
            listed == OfKind(Section(ReportLines(r), i), "label")
        IN  /\ \A p \in DOMAIN listed :
                 listed[p].key \notin {"alertname", "severity", "category", "service"}
            /\ LineKeys(listed) = Keys(SelectSeq(labels, IsShownLabel))
            /\ LineTexts(listed) = Values(SelectSeq(labels, IsShownLabel))

\* The report of an alert whose labels hold a hidden key and a shown one.
C8_Witness ==
  \E r \in Requests :
    /\ Reported(r)
    /\ \E i \in DOMAIN AlertsOf(r) :
         LET labels == Get(AlertsOf(r)[i], "labels", <<>>)
         IN  /\ \E p \in DOMAIN labels : ~IsShownLabel(labels[p])
             /\ \E p \in DOMAIN labels : IsShownLabel(labels[p])

\* The upper-case form of the severity values the payloads carry.
Capitals(severity) ==
  CASE severity = <<"c","r","i","t","i","c","a","l">> -> <<"C","R","I","T","I","C","A","L">>
    [] severity = <<"W","a","r","n">> -> <<"W","A","R","N">>

\* C9: the group summary, printed when commonLabels is not empty, shows the
\* severity in upper case (critical as CRITICAL), UNKNOWN when commonLabels has
\* no severity, and the category as it is, unknown when it has none.
C9_SeverityUpperCased ==
  \A r \in Requests :
    Reported(r) =>
      LET common_labels == Get(Members(r), "commonLabels", <<>>)
          lines == ReportLines(r)
      IN  /\ Len(common_labels) > 0 =>
               /\ LineTexts(OfKind(lines, "severity")) =
                    << IF Has(common_labels, "severity")
                       THEN Capitals(At(common_labels, "severity")) ELSE UNKNOWN >>
               /\ LineTexts(OfKind(lines, "category")) =
                    << IF Has(common_labels, "category")
                       THEN At(common_labels, "category")
                       ELSE <<"u","n","k","n","o","w","n">> >>
          /\ Len(common_labels) = 0 =>
               /\ OfKind(lines, "severity") = <<>>
               /\ OfKind(lines, "category") = <<>>

\* The report of a group whose commonLabels carry the severity critical.
C9_Witness ==
  \E r \in Requests :
    /\ Reported(r)
    /\ Get(Get(Members(r), "commonLabels", <<>>), "severity", unknown)
         = <<"c","r","i","t","i","c","a","l">>
    /\ LineTexts(OfKind(ReportLines(r), "severity")) = << <<"C","R","I","T","I","C","A","L">> >>

====
